---- MODULE Spec2Model ----
(***************************************************************************)
(* State-machine model of class ReplayTale (src/src/index.ts): the mods    *)
(* override state machine (loadBeatmap, loadReplay, enableModsOverride,    *)
(* disableModsOverride) and the playback clock (play, pause, seek, the     *)
(* frame callback loop with its audio drift correction).                   *)
(*                                                                         *)
(* Beatmap and Replay objects live outside the class and are passed in by  *)
(* reference, so the model keeps a small heap of them: beatmapMods[b] and  *)
(* replayMods[r] are the numeric identities of the Mods object each one    *)
(* currently carries.  A Mods object is immutable, so it is represented by *)
(* its numeric identity.                                                   *)
(***************************************************************************)
EXTENDS Integers, Sequences, FiniteSets, TLC

\* ------------------------------------------------------------------ values

\* JavaScript null and undefined, as values of number-typed fields.
Null == -2
Undefined == -1

\* Numeric identities of the Mods objects callers pass in (0 = no mod,
\* 8 = Hidden, 16 = HardRock).
ModIds == {0, 8, 16}

\* The Beatmap and Replay objects the callers hold, and "null".
Beatmaps == {"B1", "B2"}
Replays == {"R1", "R2"}
NoObject == "null"

\* The mods each object carries when the caller first creates it
\* (beatmap-native mods, replay as-recorded mods).
BeatmapNative == [b \in Beatmaps |-> IF b = "B1" THEN 0 ELSE 8]
ReplayNative == [r \in Replays |-> IF r = "R1" THEN 8 ELSE 0]

\* ------------------------------------------------------------------ bounds

\* Largest wall-clock time (performance.now(), ms) the model explores.
MaxNow == 2
\* Largest wall-clock time explored by the mods specification.
MaxNowMods == 1
\* Largest wall-clock advance between two frame callbacks.
MaxDelta == 1
\* Largest argument of seek().
MaxSeek == 1
\* Largest number of frame callbacks pending with requestAnimationFrame.
MaxPending == 2
\* Largest amount by which the frame time handed to a frame callback lies
\* before the performance.now() of the moment the callback runs.
MaxLag == 1
\* Largest wall-clock time explored by the drift specification.
MaxNowDrift == 500
\* Largest wall-clock time explored by the pause specification.
MaxNowFair == 100
\* The playback rates the callers set.
Rates == {1, 2}

\* Settings.get("AudioAutoSyncThresholdMS"), Settings.get("AudioOffset").
ThresholdMS == 1
AudioOffsetMS == 0
\* The rolling window and the limit of the auto-sync issue detector.
WindowMS == 1000
SyncLimit == 10

\* ------------------------------------------------------------------- state

VARIABLES
    beatmap,              \* this.beatmap: a member of Beatmaps or NoObject
    replay,               \* this.replay: a member of Replays or NoObject
    isModsOverriden,      \* this.isModsOverriden
    replayModsNumeric,    \* this._replayModsNumeric
    mods,                 \* this.mods: numeric identity of the override, or Null
    beatmapMods,          \* heap: beatmap.getMods().numeric of each Beatmap
    replayMods,           \* heap: replay.mods.numeric of each Replay
    isPaused,             \* this.isPaused
    timestamp,            \* this.timestamp
    playbackRate,         \* this._playbackRate
    autoSyncCount,        \* this._autoSyncCount
    autoSyncLastTime,     \* this._autoSyncLastTime
    lastFrameTimestamp,   \* this.lastFrameTimestamp
    rendererTimestamp,    \* this.renderer.timestamp
    gameTime,             \* this.gameInstance.time
    autoSyncEnabled,      \* Settings "AudioAutoSyncEnabled"
    detectIssue,          \* Settings "AudioAutoSyncDetectIssue"
    now,                  \* performance.now()
    frameTime,            \* the time stamp the browser handed to the latest frame callback
    pending,              \* frame callbacks registered with requestAnimationFrame
    rendererBeatmapMods,  \* mods identity the renderer saw at its last loadBeatmap
    lastOp,               \* history: the operation that ran last
    lastArg,              \* history: its mods / time argument (Null if none)
    lastReloads,          \* history: renderer.loadBeatmap calls it made
    lastAudioSeeks,       \* history: audioHandler.seekAudio calls it made
    lastDrift,            \* history: audio position - offset - timestamp read by it (0 if not read)
    burstStart,           \* history: frame time of the first counted re-seek of the current burst
    burstCount,           \* history: counted re-seeks since burstStart, all within WindowMS of it
    identityAtLoad,       \* history: replay.mods.numeric on entry to the last loadReplay
    everOverridden,       \* history: enableModsOverride was called at least once
    repeatCall,           \* history: the last two operations were enableModsOverride
                          \*          with the same mods identity
    chain,                \* history: 1 after seek, 2 after seek; pause,
                          \*          3 after seek; pause; play, else 0
    chainArg,             \* history: the argument of that seek (Null if chain = 0)
    tock                  \* history: flips on every operation

modsVars == <<beatmap, replay, isModsOverriden, replayModsNumeric, mods,
              beatmapMods, replayMods, rendererBeatmapMods>>
clockVars == <<isPaused, timestamp, playbackRate, autoSyncCount, autoSyncLastTime,
               lastFrameTimestamp, rendererTimestamp, gameTime, autoSyncEnabled,
               now, frameTime, pending>>
histVars == <<lastOp, lastArg, lastReloads, lastAudioSeeks, lastDrift, burstStart,
              burstCount, identityAtLoad, everOverridden, repeatCall, chain,
              chainArg, tock>>
vars == <<modsVars, clockVars, detectIssue, histVars>>

Abs(x) == IF x < 0 THEN -x ELSE x

\* The state after the constructor (field initialisers, lines 14-28 and 138-140).
InitFields ==
    /\ beatmap = NoObject
    /\ replay = NoObject
    /\ isModsOverriden = FALSE
    /\ replayModsNumeric = Undefined
    /\ mods = Null
    /\ beatmapMods = BeatmapNative
    /\ replayMods = ReplayNative
    /\ isPaused = TRUE
    /\ timestamp = 0
    /\ playbackRate = 1
    /\ autoSyncCount = 0
    /\ autoSyncLastTime = 0
    /\ lastFrameTimestamp = 0
    /\ rendererTimestamp = 0
    /\ gameTime = 0
    /\ now = 0
    /\ frameTime = 0
    /\ pending = 0
    /\ rendererBeatmapMods = Null
    /\ lastOp = "init"
    /\ lastArg = Null
    /\ lastReloads = 0
    /\ lastAudioSeeks = 0
    /\ lastDrift = 0
    /\ burstStart = 0
    /\ burstCount = 0
    /\ identityAtLoad = Null
    /\ everOverridden = FALSE
    /\ repeatCall = FALSE
    /\ chain = 0
    /\ chainArg = Null
    /\ tock = 0

\* History bookkeeping shared by every operation; drift is the audio drift the
\* operation read, 0 if it read none.
RecordDrift(op, arg, reloads, seeks, drift) ==
    /\ lastOp' = op
    /\ lastDrift' = drift
    /\ lastArg' = arg
    /\ lastReloads' = reloads
    /\ lastAudioSeeks' = seeks
    /\ repeatCall' = (op = "enable" /\ lastOp = "enable" /\ arg = lastArg)
    /\ chain' = IF op = "seek" THEN 1
                ELSE IF op = "pause" /\ chain = 1 THEN 2
                ELSE IF op = "play" /\ chain = 2 THEN 3
                ELSE 0
    /\ chainArg' = IF op = "seek" THEN arg
                   ELSE IF chain' = 0 THEN Null ELSE chainArg
    /\ tock' = 1 - tock

\* History bookkeeping of an operation that does not read the audio position.
Record(op, arg, reloads, seeks) ==
    /\ RecordDrift(op, arg, reloads, seeks, 0)
    /\ UNCHANGED <<burstStart, burstCount>>

\* ------------------------------------------------------------ mods machine

\* Faulty variant of LoadBeatmapMods: the override check of line 65 is missing.
LoadBeatmapModsIgnoringOverride(b) ==
    IF replay # NoObject /\ replayMods[replay] # beatmapMods[b]
    THEN replayMods[replay]
    ELSE beatmapMods[b]

\* Faulty variant of LoadBeatmapMods: the replay check of line 69 is missing,
\* so a beatmap loaded after the replay keeps its own mods.
LoadBeatmapModsBeatmapWins(b) == IF mods # Null THEN mods ELSE beatmapMods[b]

\* loadBeatmap, lines 65-72: the mods beatmap b carries once the two ifs have
\* run (the override if one is set; else the loaded replay's mods if they
\* differ from b's; else b's own).
LoadBeatmapMods(b) ==
    IF mods # Null THEN mods
    ELSE IF replay # NoObject /\ replayMods[replay] # beatmapMods[b]
         THEN replayMods[replay]
         ELSE beatmapMods[b]

\* loadBeatmap(beatmap), lines 64-77.  renderer.loadBeatmap(beatmap) hands the
\* renderer the beatmap with the mods it has at that moment.
LoadBeatmap(b) ==
    /\ beatmapMods' = [beatmapMods EXCEPT ![b] = LoadBeatmapMods(b)]
    /\ beatmap' = b
    /\ rendererBeatmapMods' = beatmapMods'[b]
    /\ Record("loadBeatmap", Null, 1, 0)
    /\ UNCHANGED <<replay, isModsOverriden, replayModsNumeric, mods, replayMods>>
    /\ UNCHANGED <<clockVars, detectIssue, identityAtLoad, everOverridden>>

\* Faulty variant of CapturedIdentity: the identity is read after the override
\* has been written into the replay (lines 80 and 82-84 swapped).
CapturedAfterOverride(r) == IF mods # Null THEN mods ELSE replayMods[r]

\* loadReplay, line 80: the identity captured for later restoration.
CapturedIdentity(r) == replayMods[r]

\* loadReplay, lines 82-84: the mods replay r carries after the override check.
LoadReplayMods(r) == IF mods # Null THEN mods ELSE replayMods[r]

\* Faulty variant of LoadReplayBeatmapMods: the beatmap is left as it is.
LoadReplayBeatmapModsKept(newReplayMods) == beatmapMods

\* loadReplay, lines 86-88: the loaded beatmap follows the replay's mods.
LoadReplayBeatmapMods(newReplayMods) ==
    IF beatmap # NoObject /\ beatmapMods[beatmap] # newReplayMods
    THEN [beatmapMods EXCEPT ![beatmap] = newReplayMods]
    ELSE beatmapMods

\* loadReplay(replay), lines 79-93.  The renderer gets loadReplay only, no
\* loadBeatmap.
LoadReplay(r) ==
    /\ replayModsNumeric' = CapturedIdentity(r)
    /\ identityAtLoad' = replayMods[r]
    /\ replayMods' = [replayMods EXCEPT ![r] = LoadReplayMods(r)]
    /\ beatmapMods' = LoadReplayBeatmapMods(LoadReplayMods(r))
    /\ replay' = r
    /\ Record("loadReplay", Null, 0, 0)
    /\ UNCHANGED <<beatmap, isModsOverriden, mods, rendererBeatmapMods>>
    /\ UNCHANGED <<clockVars, detectIssue, everOverridden>>

\* enableModsOverride, line 100: mods.numeric === this.mods?.numeric (the
\* right-hand side is undefined while this.mods is null).
SameOverride(m) == mods # Null /\ m = mods

\* enableModsOverride, line 110: oldMods !== mods.numeric
EnableReloadNeeded(oldMods, m) == oldMods # m

\* Faulty variant of EnableModsOverride: no early return for an equal
\* override, and the renderer reloads whenever a beatmap is loaded.
EnableModsOverrideAlwaysReloads(m) ==
    /\ isModsOverriden' = TRUE
    /\ everOverridden' = TRUE
    /\ mods' = m
    /\ replayMods' = IF replay # NoObject
                     THEN [replayMods EXCEPT ![replay] = m]
                     ELSE replayMods
    /\ beatmapMods' = IF beatmap # NoObject
                      THEN [beatmapMods EXCEPT ![beatmap] = m]
                      ELSE beatmapMods
    /\ rendererBeatmapMods' = IF beatmap # NoObject THEN m ELSE rendererBeatmapMods
    /\ Record("enable", m, IF beatmap # NoObject THEN 1 ELSE 0, 0)
    /\ UNCHANGED <<beatmap, replay, replayModsNumeric>>
    /\ UNCHANGED <<clockVars, detectIssue, identityAtLoad>>

\* enableModsOverride(mods), lines 95-114.
EnableModsOverride(m) ==
    /\ isModsOverriden' = TRUE
    /\ everOverridden' = TRUE
    /\ IF SameOverride(m)
       THEN /\ UNCHANGED <<mods, replayMods, beatmapMods, rendererBeatmapMods>>
            /\ Record("enable", m, 0, 0)
       ELSE LET reload == beatmap # NoObject
                          /\ EnableReloadNeeded(beatmapMods[beatmap], m)
            IN  /\ mods' = m
                /\ replayMods' = IF replay # NoObject
                                 THEN [replayMods EXCEPT ![replay] = m]
                                 ELSE replayMods
                /\ beatmapMods' = IF beatmap # NoObject
                                  THEN [beatmapMods EXCEPT ![beatmap] = m]
                                  ELSE beatmapMods
                /\ rendererBeatmapMods' = IF reload THEN m ELSE rendererBeatmapMods
                /\ Record("enable", m, IF reload THEN 1 ELSE 0, 0)
    /\ UNCHANGED <<beatmap, replay, replayModsNumeric>>
    /\ UNCHANGED <<clockVars, detectIssue, identityAtLoad>>

\* new Mods(n).numeric, line 124.  For a number n it is n.  The field is
\* declared without an initialiser, so before any loadReplay n is undefined;
\* the constructor then yields either undefined or the no-mod identity 0.
NewModsNumeric(n) == IF n = Undefined THEN {Undefined, 0} ELSE {n}

\* disableModsOverride, line 120: this._replayModsNumeric === null
NoCapturedIdentity == replayModsNumeric = Null

\* Faulty variant of DisableReloadNeeded: the renderer always reloads.
DisableReloadAlways(oldMapMods, oldReplayMods) == TRUE

\* disableModsOverride, line 132: oldMapMods !== oldReplayMods.numeric
DisableReloadNeeded(oldMapMods, oldReplayMods) == oldMapMods # oldReplayMods

\* disableModsOverride(), lines 116-136.
DisableModsOverride ==
    /\ mods' = Null
    /\ IF NoCapturedIdentity
       THEN /\ UNCHANGED <<replayMods, beatmapMods, rendererBeatmapMods>>
            /\ Record("disable", Null, 0, 0)
       ELSE \E oldReplayMods \in NewModsNumeric(replayModsNumeric) :
            LET reload == beatmap # NoObject
                          /\ DisableReloadNeeded(beatmapMods[beatmap], oldReplayMods)
            IN  /\ replayMods' = IF replay # NoObject
                                 THEN [replayMods EXCEPT ![replay] = oldReplayMods]
                                 ELSE replayMods
                /\ beatmapMods' = IF beatmap # NoObject
                                  THEN [beatmapMods EXCEPT ![beatmap] = oldReplayMods]
                                  ELSE beatmapMods
                /\ rendererBeatmapMods' = IF reload THEN oldReplayMods
                                          ELSE rendererBeatmapMods
                /\ Record("disable", Null, IF reload THEN 1 ELSE 0, 0)
    /\ UNCHANGED <<beatmap, replay, isModsOverriden, replayModsNumeric>>
    /\ UNCHANGED <<clockVars, detectIssue, identityAtLoad, everOverridden>>

\* ------------------------------------------------------------------- clock

\* Faulty variant of DriftExceeds: a drift equal to the threshold re-seeks.
DriftExceedsInclusive(timeDiff) == Abs(timeDiff) >= ThresholdMS

\* loop, line 156: Math.abs(timeDiff) > Settings.get("AudioAutoSyncThresholdMS")
DriftExceeds(timeDiff) == Abs(timeDiff) > ThresholdMS

\* Faulty variant of NextPending: the tick that disables auto-sync returns
\* without registering the next frame callback.
NextPendingUnlessTripped(sched, tripped) == IF tripped THEN sched ELSE sched + 1

\* loop, line 176: requestAnimationFrame(this.loop), reached on every pass
\* that did not return at line 142.
NextPending(sched, tripped) == sched + 1

\* loop(time), lines 141-177, entered with this.isPaused = paused and
\* this.lastFrameTimestamp = lastFrame and with sched callbacks still pending.
\* drift is how far the position the audio element reports is from
\* timestamp + offset at that moment.  seeks counts the seekAudio calls the
\* caller has made already.
Loop(time, paused, lastFrame, drift, sched, seeks, op) ==
    IF paused
    THEN /\ UNCHANGED <<timestamp, rendererTimestamp, gameTime, autoSyncCount,
                        autoSyncLastTime, autoSyncEnabled>>
         /\ lastFrameTimestamp' = lastFrame
         /\ pending' = sched
         /\ Record(op, Null, 0, seeks)
    ELSE LET deltaTime == time - lastFrame
             ts == timestamp + deltaTime * playbackRate
             currTime == ts + AudioOffsetMS + drift
             timeDiff == currTime - AudioOffsetMS - ts
             reseek == autoSyncEnabled /\ DriftExceeds(timeDiff)
             counted == reseek /\ detectIssue
             count == IF counted
                      THEN IF ts - autoSyncLastTime > WindowMS
                           THEN 0
                           ELSE autoSyncCount + 1
                      ELSE autoSyncCount
             tripped == count > SyncLimit
             newBurst == burstCount = 0 \/ time - burstStart > WindowMS
         IN  /\ timestamp' = ts
             /\ rendererTimestamp' = ts
             /\ gameTime' = ts
             /\ lastFrameTimestamp' = time
             /\ autoSyncLastTime' = IF counted THEN time ELSE autoSyncLastTime
             /\ autoSyncCount' = IF tripped THEN 0 ELSE count
             /\ autoSyncEnabled' = IF tripped THEN FALSE ELSE autoSyncEnabled
             /\ pending' = NextPending(sched, tripped)
             /\ burstStart' = IF counted /\ newBurst THEN time ELSE burstStart
             /\ burstCount' = IF ~counted THEN burstCount
                              ELSE IF newBurst THEN 1
                              ELSE IF burstCount > SyncLimit THEN burstCount
                              ELSE burstCount + 1
             /\ RecordDrift(op, Null, 0, seeks + IF reseek THEN 1 ELSE 0,
                            IF autoSyncEnabled THEN timeDiff ELSE 0)

\* Faulty variant of PlayFrameStart: play keeps the time of the last frame.
PlayFrameStartStale(t) == lastFrameTimestamp

\* play, line 181: this.lastFrameTimestamp = performance.now()
PlayFrameStart(t) == t

\* play(), lines 179-186, called at wall-clock time now + d.  It runs loop
\* synchronously, and loop registers a frame callback.
Play(d, drift) ==
    /\ now' = now + d
    /\ isPaused' = FALSE
    /\ Loop(now + d, FALSE, PlayFrameStart(now + d), drift, pending, 1, "play")
    /\ UNCHANGED <<modsVars, playbackRate, frameTime, detectIssue, identityAtLoad,
                   everOverridden>>

\* pause(), lines 188-191.
Pause ==
    /\ isPaused' = TRUE
    /\ Record("pause", Null, 0, 0)
    /\ UNCHANGED <<modsVars, timestamp, playbackRate, autoSyncCount, autoSyncLastTime,
                   lastFrameTimestamp, rendererTimestamp, gameTime, autoSyncEnabled,
                   now, frameTime, pending, detectIssue, identityAtLoad,
                   everOverridden>>

\* Faulty variant of Seek: the renderer is not told.
SeekTimestampOnly(t) ==
    /\ timestamp' = t
    /\ Record("seek", t, 0, 1)
    /\ UNCHANGED <<modsVars, isPaused, playbackRate, autoSyncCount, autoSyncLastTime,
                   lastFrameTimestamp, rendererTimestamp, gameTime, autoSyncEnabled,
                   now, frameTime, pending, detectIssue, identityAtLoad,
                   everOverridden>>

\* seek(timestamp), lines 193-197.
Seek(t) ==
    /\ timestamp' = t
    /\ rendererTimestamp' = t
    /\ Record("seek", t, 0, 1)
    /\ UNCHANGED <<modsVars, isPaused, playbackRate, autoSyncCount, autoSyncLastTime,
                   lastFrameTimestamp, gameTime, autoSyncEnabled, now, frameTime,
                   pending, detectIssue, identityAtLoad, everOverridden>>

\* set playbackRate(value), lines 32-35.
SetPlaybackRate(v) ==
    /\ playbackRate' = v
    /\ Record("setRate", v, 0, 0)
    /\ UNCHANGED <<modsVars, isPaused, timestamp, autoSyncCount, autoSyncLastTime,
                   lastFrameTimestamp, rendererTimestamp, gameTime, autoSyncEnabled,
                   now, frameTime, pending, detectIssue, identityAtLoad,
                   everOverridden>>

\* Faulty variant of Tick: the callback runs the body of loop even while paused.
TickIgnoringPause(d, lag, drift) ==
    /\ pending > 0
    /\ now' = now + d
    /\ now + d - lag >= frameTime
    /\ lag > 0 => now + d - lag > frameTime
    /\ frameTime' = now + d - lag
    /\ Loop(now + d - lag, FALSE, lastFrameTimestamp, drift, pending - 1, 0, "tick")
    /\ UNCHANGED <<modsVars, isPaused, playbackRate, detectIssue, identityAtLoad,
                   everOverridden>>

\* One callback registered by requestAnimationFrame(this.loop) (line 176)
\* runs, d ms of wall-clock time after the previous event.  The browser hands
\* it the time stamp of the frame, which lies lag ms before the
\* performance.now() of the moment the callback runs and never before the time
\* stamp of an earlier frame; a frame stamped before the moment it runs is a
\* new frame, stamped after every earlier one.
Tick(d, lag, drift) ==
    /\ pending > 0
    /\ now' = now + d
    /\ now + d - lag >= frameTime
    /\ lag > 0 => now + d - lag > frameTime
    /\ frameTime' = now + d - lag
    /\ Loop(now + d - lag, isPaused, lastFrameTimestamp, drift, pending - 1, 0, "tick")
    /\ UNCHANGED <<modsVars, isPaused, playbackRate, detectIssue, identityAtLoad,
                   everOverridden>>

\* ---------------------------------------------------------- specifications

Drifts == (0 - ThresholdMS - 1) .. (ThresholdMS + 1)

\* The mods machine, with playback on a short wall clock and auto-sync off.
Init ==
    /\ InitFields
    /\ autoSyncEnabled = FALSE
    /\ detectIssue = FALSE

ModsPlay == pending < MaxPending /\ now <= MaxNowMods /\ Play(0, 0)

ModsTick == \E d \in 0 .. MaxDelta : now + d <= MaxNowMods /\ Tick(d, 0, 0)

Next ==
    \/ \E b \in Beatmaps : LoadBeatmap(b)
    \/ \E r \in Replays : LoadReplay(r)
    \/ \E m \in ModIds : EnableModsOverride(m)
    \/ DisableModsOverride
    \/ ModsPlay
    \/ Pause
    \/ ModsTick

Spec == Init /\ [][Next]_vars

\* The clock, with auto-sync on or off, issue detection off, and one beatmap
\* the caller may load.
InitClock ==
    /\ InitFields
    /\ autoSyncEnabled \in BOOLEAN
    /\ detectIssue = FALSE

ClockPlay ==
    \E d \in 0 .. MaxDelta, drift \in Drifts :
        pending < MaxPending /\ now + d <= MaxNow /\ Play(d, drift)

ClockTick ==
    \E d \in 0 .. MaxDelta, lag \in 0 .. MaxLag, drift \in Drifts :
        now + d <= MaxNow /\ Tick(d, lag, drift)

NextClock ==
    \/ ClockPlay
    \/ Pause
    \/ \E t \in 0 .. MaxSeek : Seek(t)
    \/ \E v \in Rates : SetPlaybackRate(v)
    \/ ClockTick
    \/ LoadBeatmap("B1")

SpecClock == InitClock /\ [][NextClock]_vars

\* The drift corrector on an unpaused clock: auto-sync and issue detection on,
\* frames 50 ms apart, the audio either at the threshold or just past it, a
\* seek far into the song, and play called with at most one frame callback
\* pending.
DriftFrames == {50}
DriftSeeks == {2000}
DriftReadings == {ThresholdMS, ThresholdMS + 1}

InitDrift ==
    /\ InitFields
    /\ autoSyncEnabled = TRUE
    /\ detectIssue = TRUE

DriftPlay == \E drift \in DriftReadings : pending <= 1 /\ Play(0, drift)

DriftTick ==
    \E d \in DriftFrames, drift \in DriftReadings :
        now + d <= MaxNowDrift /\ Tick(d, 0, drift)

NextDrift ==
    \/ DriftPlay
    \/ \E t \in DriftSeeks : Seek(t)
    \/ DriftTick

SpecDrift == InitDrift /\ [][NextDrift]_vars

\* Playing and pausing with the drift corrector on, over a short wall clock
\* on which several frame callbacks may run at the same instant.  The browser
\* runs every registered frame callback, so a pending callback is eventually
\* run (weak fairness of FairTick).
FairFrames == {0, 50}

FairPlay == \E drift \in DriftReadings : pending <= 1 /\ Play(0, drift)

FairTick ==
    \E d \in FairFrames, drift \in DriftReadings :
        now + d <= MaxNowFair /\ Tick(d, 0, drift)

NextFair ==
    \/ FairPlay
    \/ Pause
    \/ \E t \in DriftSeeks : Seek(t)
    \/ FairTick

SpecFair == InitDrift /\ [][NextFair]_vars /\ WF_vars(FairTick)

\* ------------------------------------------------------------------ claims

\* C1 (invariant I1): whenever an override is active, the loaded beatmap's
\* mods identity (if a beatmap is loaded) and the loaded replay's mods identity
\* (if a replay is loaded) both equal the override's identity.
I1_OverrideGoverns ==
    mods # Null =>
        /\ beatmap # NoObject => beatmapMods[beatmap] = mods
        /\ replay # NoObject => replayMods[replay] = mods

\* An override is active over a beatmap and a replay that were loaded while it
\* was active and whose own mods both differ from it.
I1_Witness ==
    /\ mods # Null
    /\ beatmap # NoObject /\ BeatmapNative[beatmap] # mods
    /\ replay # NoObject /\ ReplayNative[replay] # mods
    /\ lastOp = "loadBeatmap"
    /\ beatmapMods[beatmap] = mods /\ replayMods[replay] = mods

\* C2 (invariant I2): whenever no override is active and both a replay and a
\* beatmap are loaded, the beatmap's mods identity equals the replay's.
I2_ReplayGoverns ==
    (mods = Null /\ replay # NoObject /\ beatmap # NoObject)
        => beatmapMods[beatmap] = replayMods[replay]

\* No override, a replay loaded onto a beatmap whose native mods differ.
I2_Witness ==
    /\ mods = Null /\ replay # NoObject /\ beatmap # NoObject
    /\ lastOp = "loadReplay"
    /\ BeatmapNative[beatmap] # identityAtLoad
    /\ beatmapMods[beatmap] = replayMods[replay]

\* C3 (P2/I3): right after disableModsOverride, a loaded replay carries exactly
\* the mods identity it had on entry to its loadReplay call, whatever overrides
\* were enabled in between, and so does a loaded beatmap.
P2_DisableRestoresOriginal ==
    (lastOp = "disable" /\ replay # NoObject) =>
        /\ replayMods[replay] = identityAtLoad
        /\ beatmap # NoObject => beatmapMods[beatmap] = identityAtLoad

\* An override was enabled over a loaded replay and beatmap and has just been
\* disabled, which changed the beatmap's mods back.
P2_Witness ==
    /\ lastOp = "disable" /\ everOverridden
    /\ replay # NoObject /\ beatmap # NoObject
    /\ lastReloads = 1
    /\ replayMods[replay] = identityAtLoad

\* C4 (P1): while no override has been enabled, once a beatmap and a replay are
\* both loaded, in either order, both carry the replay's as-recorded mods
\* identity.
P1_LoadOrder ==
    (~everOverridden /\ replay # NoObject /\ beatmap # NoObject) =>
        /\ beatmapMods[beatmap] = ReplayNative[replay]
        /\ replayMods[replay] = ReplayNative[replay]

\* The replay was loaded first and then a beatmap whose native mods differ.
P1_Witness ==
    /\ ~everOverridden /\ lastOp = "loadBeatmap"
    /\ replay # NoObject /\ beatmap # NoObject
    /\ BeatmapNative[beatmap] # ReplayNative[replay]
    /\ beatmapMods[beatmap] = ReplayNative[replay]

\* C5 (ordering guarantee): whenever a frame callback has just propagated the
\* timestamp to the renderer, the mods identity the renderer received at its
\* last loadBeatmap equals the loaded beatmap's current mods identity.
Ordering_ReloadBeforeTick ==
    (lastOp = "tick" /\ ~isPaused /\ beatmap # NoObject)
        => rendererBeatmapMods = beatmapMods[beatmap]

\* C6: disableModsOverride before any loadReplay clears the override, leaves
\* every beatmap's mods unchanged and sends the renderer no loadBeatmap.
Disable_NoReplayNoEffect ==
    [][(tock' # tock /\ lastOp' = "disable" /\ replayModsNumeric = Undefined)
         => (mods' = Null /\ beatmapMods' = beatmapMods /\ lastReloads' = 0)]_vars

\* C7 (P3): a second enableModsOverride with the identity of the call just
\* before it sends the renderer no loadBeatmap, leaves the override, every
\* replay's mods and every beatmap's mods unchanged, and leaves the override
\* marked active.
P3_EnableIdempotent ==
    [][(tock' # tock /\ lastOp = "enable" /\ lastOp' = "enable" /\ lastArg' = lastArg)
         => /\ lastReloads' = 0
            /\ mods' = mods /\ mods' = lastArg'
            /\ replayMods' = replayMods
            /\ beatmapMods' = beatmapMods
            /\ isModsOverriden']_vars

\* enableModsOverride has just run twice in a row with the same identity, with
\* a beatmap and a replay loaded.
P3_Witness ==
    /\ repeatCall /\ lastOp = "enable"
    /\ beatmap # NoObject /\ replay # NoObject
    /\ mods = lastArg /\ lastReloads = 0

\* C8: with a beatmap loaded, a call of enableModsOverride or
\* disableModsOverride sends the renderer exactly one loadBeatmap if it changed
\* the loaded beatmap's mods identity, and none if it did not.
Reload_IffModsChanged ==
    [][(tock' # tock /\ lastOp' \in {"enable", "disable"} /\ beatmap # NoObject)
         => lastReloads' = IF beatmapMods'[beatmap] # beatmapMods[beatmap]
                           THEN 1 ELSE 0]_vars

\* Scenario C: disabling the override brought the beatmap back to the
\* replay's mods and reloaded the renderer once.
Reload_Witness ==
    /\ lastOp = "disable" /\ lastReloads = 1
    /\ beatmap # NoObject /\ replay # NoObject
    /\ beatmapMods[beatmap] = 8 /\ rendererBeatmapMods = 8

\* C9 (I4): with no beatmap loaded, seek and a frame callback change neither
\* the renderer's timestamp nor the game logic's time.
I4_NoBeatmapNoPropagation ==
    [][(tock' # tock /\ lastOp' \in {"seek", "tick"} /\ beatmap = NoObject)
         => (rendererTimestamp' = rendererTimestamp /\ gameTime' = gameTime)]_vars

\* C10 (P4): pause and play never change the timestamp, and when play returns
\* after seek(t); pause(); play() the timestamp is t.
P4_SeekPausePlay ==
    [][tock' # tock =>
         /\ lastOp' \in {"pause", "play"} => timestamp' = timestamp
         /\ chain' = 3 => timestamp' = chainArg']_vars

\* seek(t); pause(); play() has just run at a wall-clock time later than the
\* last frame, on a clock that was playing, with t different from where the
\* clock was.
P4_Witness ==
    /\ chain = 3 /\ lastOp = "play"
    /\ chainArg = MaxSeek /\ timestamp = chainArg
    /\ now > 0 /\ pending > 1

\* C11 (P6): once more than SyncLimit counted re-seeks have happened within
\* one WindowMS window of wall-clock time, auto-sync has been disabled and the
\* correction counter is 0.
P6_BurstDisablesAutoSync ==
    burstCount > SyncLimit => (~autoSyncEnabled /\ autoSyncCount = 0)

\* C12 (P5): a tick (or the tick that play() runs) whose measured drift
\* |audioPosition - offset - Timestamp| is at most ThresholdMS issues no audio
\* re-seek (play() issues only its own seek) and leaves the correction counter
\* as it was.
P5_InThresholdNoReseek ==
    [][(/\ tock' # tock
        /\ lastOp' \in {"tick", "play"}
        /\ Abs(lastDrift') <= ThresholdMS)
       => (/\ lastAudioSeeks' = (IF lastOp' = "play" THEN 1 ELSE 0)
           /\ autoSyncCount' = autoSyncCount)]_vars

\* C12 witness: an unpaused tick with auto-sync and issue detection on read a
\* drift exactly at the threshold, issued no re-seek and kept a positive counter.
P5_Witness ==
    /\ lastOp = "tick"
    /\ ~isPaused
    /\ autoSyncEnabled
    /\ detectIssue
    /\ lastDrift = ThresholdMS
    /\ lastAudioSeeks = 0
    /\ autoSyncCount >= 1

\* C13 (rolling-window rule): with issue detection on, a counted correction
\* that comes more than WindowMS of tick time after the previous counted
\* correction leaves the counter at 1, and one that comes within WindowMS
\* leaves it one higher than before (0 when that exceeds SyncLimit and
\* auto-sync is disabled); the elapsed time is measured between the two tick
\* times, the time base of the recorded last-correction time.
RollingWindow_ResetThenIncrement ==
    [][(/\ tock' # tock
        /\ lastOp' \in {"tick", "play"}
        /\ ~isPaused'
        /\ autoSyncEnabled
        /\ detectIssue
        /\ burstCount > 0
        /\ Abs(lastDrift') > ThresholdMS)
       => autoSyncCount' =
             IF lastFrameTimestamp' - autoSyncLastTime > WindowMS
             THEN 1
             ELSE IF autoSyncCount + 1 > SyncLimit THEN 0 ELSE autoSyncCount + 1]_vars

\* C14: at most one tick callback is pending with the frame scheduler in
\* every reachable state.
Scheduler_AtMostOnePending ==
    pending <= 1

\* C15: a tick that fires while paused changes neither the timestamp, the
\* renderer's timestamp, the game time nor the drift counters, issues no
\* audio re-seek and schedules no further tick; while paused only seek changes
\* the timestamp; and play restarts the frame clock at the current wall-clock
\* time without moving the timestamp, so paused time is never added.
Pause_FreezesTimestamp ==
    [][tock' # tock =>
         /\ (lastOp' = "tick" /\ isPaused) =>
               /\ timestamp' = timestamp
               /\ rendererTimestamp' = rendererTimestamp
               /\ gameTime' = gameTime
               /\ autoSyncCount' = autoSyncCount
               /\ autoSyncLastTime' = autoSyncLastTime
               /\ autoSyncEnabled' = autoSyncEnabled
               /\ lastAudioSeeks' = 0
               /\ pending' = pending - 1
         /\ (isPaused /\ timestamp' # timestamp) => lastOp' = "seek"
         /\ lastOp' = "play" =>
               /\ timestamp' = timestamp
               /\ lastFrameTimestamp' = now']_vars

\* C15 witness: a frame callback fired on a paused clock, later than the last
\* unpaused frame, after the timestamp had moved, and left nothing scheduled.
Pause_Witness ==
    /\ lastOp = "tick"
    /\ isPaused
    /\ timestamp > 0
    /\ now > lastFrameTimestamp
    /\ pending = 0

\* C16: in every state that follows a seek, or a tick or play on
\* an unpaused clock, the renderer's timestamp and the game time both equal
\* the timestamp.
Bound_AllCollaboratorsAfterSeekOrTick ==
    (lastOp = "seek" \/ (lastOp \in {"tick", "play"} /\ ~isPaused))
        => (rendererTimestamp = timestamp /\ gameTime = timestamp)

\* C17: every frame-scheduled tick on an unpaused clock with a positive
\* playback rate sets the timestamp to its previous value plus
\* (frame time - last tick time) * playbackRate and never decreases it, the
\* first frame after play() included.
Timestamp_MonotonicWhilePlaying ==
    [][(/\ tock' # tock
        /\ lastOp' = "tick"
        /\ ~isPaused
        /\ playbackRate > 0)
       => (/\ timestamp' = timestamp + (frameTime' - lastFrameTimestamp) * playbackRate
           /\ timestamp' >= timestamp)]_vars

\* C18: every tick (and the tick play() runs) on an unpaused clock ends with
\* a next tick scheduled, the tick in which the counter exceeds SyncLimit and
\* auto-sync is disabled included; so once the clock stays unpaused, ticks are
\* run again and again without end.
Playback_NeverHalts ==
    /\ [][(/\ tock' # tock
           /\ lastOp' \in {"tick", "play"}
           /\ ~isPaused')
          => pending' >= 1]_vars
    /\ (<>[]~isPaused => []<><<FairTick>>_vars)

\* C18 witness: the tick that re-seeked the audio, exceeded SyncLimit and
\* disabled auto-sync left the clock unpaused with a next tick scheduled.
Playback_Witness ==
    /\ lastOp = "tick"
    /\ ~isPaused
    /\ lastAudioSeeks = 1
    /\ ~autoSyncEnabled
    /\ autoSyncCount = 0
    /\ burstCount > SyncLimit
    /\ pending >= 1

\* C19: the public flag isModsOverriden is true exactly when an override is
\* active (mods holds an override), in every reachable state.
Flag_TrueIffOverrideActive ==
    isModsOverriden <=> (mods # Null)

\* C20: whenever a replay is loaded, the captured original identity equals
\* the as-recorded mods identity of that replay.
Captured_IsRecordedIdentity ==
    replay # NoObject => replayModsNumeric = ReplayNative[replay]


====
